---- MODULE Spec2Model ----
(***************************************************************************)
(* Model of the meteo-ci-app backend: the date-range chunker of utils.py,  *)
(* the MeteoVisionClient of webservice.py, and the request handlers and    *)
(* the Pulsonic provider that drive them (app.py, pulsonic_provider.py).   *)
(*                                                                         *)
(* Time is counted in ticks; a day is TicksPerDay ticks, so that intervals *)
(* that are not a whole number of days exist.                              *)
(***************************************************************************)
EXTENDS Integers, Sequences, FiniteSets, TLC

\* ---------------------------------------------------------------- bounds
\* ticks per day: the resolution of the modelled clock
TicksPerDay == 2
\* the instants given to split_date_range are 0..MaxTick
MaxTick == 9
\* the max_days given to split_date_range are 1..MaxChunkDays
MaxChunkDays == 3
\* a reply text is at most MaxReplyLen tokens long
MaxReplyLen == 4
\* a reply document holds at most MaxLines LINEDATA records, each of a
\* timestamp field and at most MaxFields value fields
MaxLines == 1
MaxFields == 2
\* a parameter list given to the client on its own has at most MaxParams names
MaxParams == 2
\* a request names at most MaxStations stations
MaxStations == 2
\* a request's dates are the days 0..MaxStartDay (start) and 0..MaxDay (end)
MaxStartDay == 1
MaxDay == 8
\* a table is made from at most MaxCsvStations stations of at most
\* MaxCsvPoints points each, for at most MaxCsvParams parameters
MaxCsvStations == 2
MaxCsvPoints == 2
MaxCsvParams == 2
\* a volume is estimated between instants 0..MaxEstTick (and one year on),
\* for at most MaxEstStations stations and MaxEstParams parameters
MaxEstTick == 4
MaxEstStations == 3
MaxEstParams == 3
\* a station's first recorded date lies at most MaxDurDays days before now
MaxDurDays == 800
\* the handlers make at most MaxClients client objects in all
MaxClients == 4

VARIABLES
    \* ---- split_date_range, called on its own
    start_date, end_date, max_days, blocks, spc,
    s_current_start,    \* the loop's current_start
    \* ---- one client call on a given reply: the client's connected flag,
    \* the requested parameters, the remote reply, and the call's outcome
    c_connected, c_params, c_reply, c_outcome,
    \* ---- one MeteoVisionClient driven through its public methods
    wsdl_url,       \* self.wsdl_url
    connected,      \* self.connected
    client,         \* self.client: "None" or "zeep"
    hist,           \* the last connect()/close() event on this client
    lastCall,       \* the last method called and its outcome
    \* ---- the request layer (app.py) and the Pulsonic provider
    layer,          \* which of the two is running: "app" or "provider"
    ws_client,      \* app.py's global ws_client
    prov_client,    \* PulsonicProvider.client
    h,              \* the handler in progress: its position and its locals
    calls,          \* the remote calls the handler in progress has made
    \* ---- one function of utils.py, called on its own
    u_fn,           \* the function called
    u_in,           \* its arguments
    u_out,          \* <<>> before the call, <<the returned value>> after it
    \* ---- request handlers of app.py on the threads of the server
    g_ws_client,    \* the global ws_client: 0 for None, or a client object
    objs,           \* the MeteoVisionClient objects made so far
    th,             \* each thread's handler: its position and its locals
    inflight,       \* the remote operations sent and not yet answered
    faulted         \* the client objects a remote call on which met a transport fault

splitVars == <<start_date, end_date, max_days, blocks, spc, s_current_start>>
callVars == <<c_connected, c_params, c_reply, c_outcome>>
clientVars == <<wsdl_url, connected, client, hist, lastCall>>
appVars == <<layer, ws_client, prov_client, h, calls>>
utilVars == <<u_fn, u_in, u_out>>
threadVars == <<g_ws_client, objs, th, inflight, faulted>>
vars == <<splitVars, callVars, clientVars, appVars, utilVars, threadVars>>

Min(a, b) == IF a < b THEN a ELSE b

\* timedelta(days=n), in ticks
timedelta(days) == days * TicksPerDay

\* =================================================== utils.split_date_range
\* the while loop, from the state (current_start, blocks) on
RECURSIVE SplitLoop(_, _, _, _)
SplitLoopNoClamp(current_start, end, maxd, acc) ==
    IF current_start < end
    THEN LET current_end == current_start + timedelta(maxd)
         IN  SplitLoop(current_end, end, maxd, Append(acc, <<current_start, current_end>>))
    ELSE acc

SplitLoopGap(current_start, end, maxd, acc) ==
    IF current_start < end
    THEN LET current_end == Min(current_start + timedelta(maxd), end)
         IN  SplitLoop(current_end + 1, end, maxd, Append(acc, <<current_start, current_end>>))
    ELSE acc

SplitLoop(current_start, end, maxd, acc) ==
    IF current_start < end
    THEN LET current_end == Min(current_start + timedelta(maxd), end)
         IN  SplitLoop(current_end, end, maxd, Append(acc, <<current_start, current_end>>))
    ELSE acc

split_date_range(start, end, maxd) == SplitLoop(start, end, maxd, <<>>)

\* ======================================================== helper operators
Range(f) == {f[i] : i \in DOMAIN f}

SeqsUpTo(S, n) == UNION {[1..k -> S] : k \in 0..n}

\* ================================================================ config.py
GRANULARITY_LIMITS ==
    [g \in {"U", "X", "H", "J", "D"} |->
        CASE g = "U" -> 7 [] g = "X" -> 31 [] g = "H" -> 180
          [] g = "J" -> 365 [] g = "D" -> 365]

\* Config.GRANULARITY_LIMITS.get(granularity, 180)
DEFAULT_LIMIT == 180
\* the limit of a year taken for a granularity that is not in the table
LimitOfYear(granularity) ==
    IF granularity \in DOMAIN GRANULARITY_LIMITS
    THEN GRANULARITY_LIMITS[granularity]
    ELSE 365

LimitOf(granularity) ==
    IF granularity \in DOMAIN GRANULARITY_LIMITS
    THEN GRANULARITY_LIMITS[granularity]
    ELSE DEFAULT_LIMIT

\* the granularities of the table, and "Z", one that is not in it
AllGranularities == (DOMAIN GRANULARITY_LIMITS) \cup {"Z"}

\* besides the days 0..MaxDay, the days that bound the blocks of a request of
\* two full blocks and one day more
LongEndDay(g) == 2 * LimitOf(g) + 1
LongBlockDays == UNION {{LimitOf(g), 2 * LimitOf(g), LongEndDay(g)} : g \in AllGranularities}
Days == (0..MaxDay) \cup {LongEndDay(g) : g \in AllGranularities}

\* ============================================================ webservice.py
\* A text is a sequence of tokens.  MARKER is the substring "Error:"; "-" and
\* the digits spell integers; " " is white space; "x" is any other text.
MARKER == "Error:"
Digits == {"1", "2", "4", "5"}
Tokens == {MARKER, "-", " ", "x"} \cup Digits

DigitVal(d) == CASE d = "1" -> 1 [] d = "2" -> 2 [] d = "4" -> 4 [] d = "5" -> 5

\* What the remote service hands back for one request: a transport fault (the
\* SOAP call raises), a text, or a well-formed document of LINEDATA records,
\* each a sequence of comma-separated fields.
Fault == [kind |-> "fault", toks |-> <<>>, lines |-> <<>>]
TextReply(toks) == [kind |-> "text", toks |-> toks, lines |-> <<>>]
XmlReply(lines) == [kind |-> "xml", toks |-> <<>>, lines |-> lines]

\* datetime.strftime('%Y%m%d%H%M'): the twelve digits of instant t, one token
strftime(t) == <<"t" \o ToString(t)>>

\* the instants a timestamp text may denote
Stamps == (0..(MaxDay * TicksPerDay)) \cup {d * TicksPerDay : d \in LongBlockDays}

\* datetime.strptime(text, '%Y%m%d%H%M'): <<t>>, or <<>> for ValueError
strptime(text) ==
    IF \E t \in Stamps : text = strftime(t)
    THEN <<CHOOSE t \in Stamps : text = strftime(t)>>
    ELSE <<>>

\* str.strip()
RECURSIVE LStrip(_)
LStrip(text) ==
    IF text # <<>> /\ Head(text) = " " THEN LStrip(Tail(text)) ELSE text

RECURSIVE RStrip(_)
RStrip(text) ==
    IF text # <<>> /\ text[Len(text)] = " "
    THEN RStrip(SubSeq(text, 1, Len(text) - 1))
    ELSE text

Strip(text) == RStrip(LStrip(text))

\* "Error:" in text
HasMarker(text) == \E i \in DOMAIN text : text[i] = MARKER

\* text.split("Error:")[1]: what lies between the first marker and the next
\* one (or the end); only used on texts that hold the marker
FirstMarker(text) == CHOOSE i \in DOMAIN text :
    text[i] = MARKER /\ \A j \in 1..(i - 1) : text[j] # MARKER

AfterMarker(text) ==
    LET i == FirstMarker(text)
        rest == SubSeq(text, i + 1, Len(text))
        stop == IF HasMarker(rest) THEN FirstMarker(rest) - 1 ELSE Len(rest)
    IN  SubSeq(rest, 1, stop)

\* int(text): <<n>>, or <<>> for ValueError.  An optional minus sign and then
\* at least one digit, nothing else.
RECURSIVE DigitsValue(_, _)
DigitsValue(text, acc) ==
    IF text = <<>> THEN acc
    ELSE DigitsValue(Tail(text), 10 * acc + DigitVal(Head(text)))

IsDigits(text) == text # <<>> /\ \A i \in DOMAIN text : text[i] \in Digits

int(text) ==
    LET t == Strip(text)
    IN  IF IsDigits(t) THEN <<DigitsValue(t, 0)>>
        ELSE IF t # <<>> /\ Head(t) = "-" /\ IsDigits(Tail(t))
             THEN <<0 - DigitsValue(Tail(t), 0)>>
             ELSE <<>>

\* MeteoVisionClient._extract_error_code
UNKNOWN_CODE == -999

_extract_error_code(error_string) ==
    LET n == int(Strip(AfterMarker(error_string)))
    IN  IF n = <<>> THEN UNKNOWN_CODE ELSE n[1]

\* MeteoVisionClient.ERROR_MESSAGES.get(code, "Erreur inconnue")
ERROR_MESSAGES ==
    [c \in {-1, -2, -4, -5, -15} |->
        CASE c = -1 -> "Erreur de connexion/login"
          [] c = -2 -> "Argument inconnu"
          [] c = -4 -> "Station non trouvée"
          [] c = -5 -> "Pas de données disponibles"
          [] c = -15 -> "Aucune donnée disponible"]

ErrorMessage(code) ==
    IF code \in DOMAIN ERROR_MESSAGES THEN ERROR_MESSAGES[code] ELSE "Erreur inconnue"

\* the code of "no data in range"
NO_DATA_CODE == -5

\* How a call ends: it returns a value, or raises an exception of a class,
\* with a message and, when the message names one, an error code.
Return(v) == [ok |-> TRUE, value |-> v, exc |-> "", msg |-> "", code |-> <<>>]
Raise(exc, msg, code) == [ok |-> FALSE, value |-> <<>>, exc |-> exc, msg |-> msg, code |-> code]
WebServiceError(msg) == Raise("WebServiceError", msg, <<>>)
NotConnected == WebServiceError("Non connecté au WebService")
NoOutcome == [ok |-> FALSE, value |-> <<>>, exc |-> "", msg |-> "", code |-> <<>>]

\* MeteoVisionClient._parse_xml_data: one point per LINEDATA record
FieldOfShifted(values, i) == IF i <= Len(values) THEN values[i] ELSE <<>>

FieldOf(values, i) == IF i + 1 <= Len(values) THEN values[i + 1] ELSE <<>>

\* the dict built by the loop over enumerate(params): a later entry of the
\* same name overwrites an earlier one
PointOf(values, params) ==
    [timestamp |-> strptime(values[1])[1],
     vals |-> [p \in Range(params) |->
                 LET i == CHOOSE k \in DOMAIN params :
                              params[k] = p /\ \A j \in DOMAIN params : params[j] = p => j <= k
                     value == FieldOf(values, i)
                 IN  IF value # <<>> THEN <<value>> ELSE <<>>]]

StripAll(raw_values) == [i \in DOMAIN raw_values |-> Strip(raw_values[i])]

_parse_xml_data(reply, params) ==
    IF reply.kind # "xml"
    THEN WebServiceError("Erreur parsing données")
    ELSE IF \E k \in DOMAIN reply.lines : strptime(StripAll(reply.lines[k])[1]) = <<>>
         THEN WebServiceError("Erreur parsing données")
         ELSE Return([k \in DOMAIN reply.lines |-> PointOf(StripAll(reply.lines[k]), params)])

\* MeteoVisionClient.get_block_sorted_value
get_block_sorted_value_all_empty(isConnected, params, reply) ==
    IF ~isConnected THEN NotConnected
    ELSE IF reply.kind = "fault"
         THEN WebServiceError("Erreur récupération données")
         ELSE IF HasMarker(reply.toks)
              THEN LET error_code == _extract_error_code(reply.toks)
                   IN  IF error_code \in {NO_DATA_CODE, -15}
                       THEN Return(<<>>)
                       ELSE Raise("WebServiceError", ErrorMessage(error_code), <<error_code>>)
              ELSE _parse_xml_data(reply, params)

get_block_sorted_value(isConnected, params, reply) ==
    IF ~isConnected THEN NotConnected
    ELSE IF reply.kind = "fault"
         THEN WebServiceError("Erreur récupération données")
         ELSE IF HasMarker(reply.toks)
              THEN LET error_code == _extract_error_code(reply.toks)
                   IN  IF error_code = NO_DATA_CODE
                       THEN Return(<<>>)
                       ELSE Raise("WebServiceError", ErrorMessage(error_code), <<error_code>>)
              ELSE _parse_xml_data(reply, params)

\* MeteoVisionClient.get_version
get_version(isConnected, reply) ==
    IF ~isConnected THEN NotConnected
    ELSE IF reply.kind = "fault" \/ HasMarker(reply.toks)
         THEN Return(<<"Unknown">>)
         ELSE Return(reply.toks)

\* MeteoVisionClient.get_first_recorded_date
get_first_recorded_date(isConnected, reply) ==
    IF ~isConnected THEN NotConnected
    ELSE IF reply.kind = "fault"
         THEN Raise("Exception", "transport", <<>>)
         ELSE IF HasMarker(reply.toks)
              THEN LET error_code == _extract_error_code(reply.toks)
                   IN  Raise("WebServiceError", ErrorMessage(error_code), <<error_code>>)
              ELSE IF strptime(reply.toks) = <<>>
                   THEN WebServiceError("Format de date invalide")
                   ELSE Return(strptime(reply.toks))

\* MeteoVisionClient.connect, by what the remote side does: fetching the
\* service definition fails, the OpenConnection call fails, or the call
\* answers with a handshake result
HandshakeResults == {"True", "'1'", "1", "False", "'0'", "0"}
ConnectOutcomes == {"wsdl_fault", "call_fault"} \cup HandshakeResults
Accepted(o) == o \in {"True", "'1'", "1"}

connect_outcome(o) ==
    IF Accepted(o) THEN Return(<<>>)
    ELSE WebServiceError("Impossible de se connecter")

\* ============================== app.py and providers/pulsonic_provider.py
\* a client object as its holder sees it: the endpoint it was built on and
\* its connected flag; NoClient is None
NoClient == [url |-> "None", connected |-> FALSE]
NewClient(url) == [url |-> url, connected |-> FALSE]
NeedsConnect(c) == c = NoClient \/ ~c.connected

\* a date of a request body, 'YYYY-MM-DD': day d as one text, or a text that
\* is no date
DateText(d) == "d" \o ToString(d)
BadDate == "2023-13-45"

\* datetime.strptime(text, '%Y-%m-%d'): <<midnight of the day>>, or <<>> for
\* ValueError
ParseDate(text) ==
    IF \E d \in Days : text = DateText(d)
    THEN <<(CHOOSE d \in Days : text = DateText(d)) * TicksPerDay>>
    ELSE <<>>

\* a function as a dict: d[k] = v
Put(d, k, v) == [x \in (DOMAIN d) \cup {k} |-> IF x = k THEN v ELSE d[x]]

RECURSIVE TotalRows(_, _)
TotalRows(d, keys) ==
    IF keys = {} THEN 0
    ELSE LET k == CHOOSE x \in keys : TRUE
         IN  Len(d[k]) + TotalRows(d, keys \ {k})

\* what a handler answers: an HTTP status and message (app.py), or the
\* provider method's return (status 0) or the exception leaving it
NoResponse == [status |-> 0, raised |-> "", message |-> ""]
Http(status, message) == [status |-> status, raised |-> "", message |-> message]
Returned == [status |-> 0, raised |-> "", message |-> "returned"]
Raised(exc, message) == [status |-> 0, raised |-> exc, message |-> message]

NoRequest ==
    [handler |-> "none", missing |-> "", stations |-> <<>>, params |-> <<>>,
     start_date |-> "", end_date |-> "", granularity |-> ""]

IdleFrame ==
    [pc |-> "idle", req |-> NoRequest, start |-> 0, end |-> 0, si |-> 0, bi |-> 0,
     date_blocks |-> <<>>, data_by_station |-> <<>>, station_points |-> <<>>, result |-> <<>>,
     response |-> NoResponse]

\* the client the running handler talks to
TheClient == IF layer = "app" THEN ws_client ELSE prov_client

\* date_blocks = split_date_range(start_date, end_date, max_days)
DateBlocks(f) == split_date_range(f.start, f.end, LimitOf(f.req.granularity))

\* download_data of app.py, after the loops: the 404 of an empty download,
\* or the CSV
AppDownloadResponse(d) ==
    IF TotalRows(d, DOMAIN d) = 0
    THEN Http(404, "Aucune donnée disponible pour la période sélectionnée")
    ELSE Http(200, "csv")

\* The station loop of the two download_data, from the top of the iteration
\* for station number si on: the iterations that fetch nothing (no block) run
\* through; it stops before the first fetch, or at the end of the handler.
RECURSIVE EnterStation(_, _)
EnterStation(f, si) ==
    IF si > Len(f.req.stations)
    THEN [f EXCEPT !.pc = "done", !.si = si, !.bi = 0,
                   !.response = IF f.req.handler = "app_download"
                                THEN AppDownloadResponse(f.data_by_station)
                                ELSE Returned]
    ELSE LET station == f.req.stations[si]
             isApp == f.req.handler = "app_download"
             \* app.py: data_by_station[station] = []; provider: station_points = []
             g == IF isApp
                  THEN [f EXCEPT !.data_by_station = Put(@, station, <<>>),
                                 !.date_blocks = DateBlocks(f)]
                  ELSE [f EXCEPT !.station_points = <<>>,
                                 !.date_blocks = DateBlocks(f)]
         IN  IF g.date_blocks = <<>>
             THEN EnterStation(IF isApp THEN g
                               ELSE [g EXCEPT !.data_by_station = Put(@, station, <<>>)],
                               si + 1)
             ELSE [g EXCEPT !.pc = "fetch", !.si = si, !.bi = 1]

\* one iteration of the block loop: the fetch ended as out
AfterFetchAbort(f, out) ==
    LET station == f.req.stations[f.si]
        isApp == f.req.handler = "app_download"
        got == IF out.ok THEN out.value ELSE <<>>
        g == IF isApp
             THEN [f EXCEPT !.data_by_station[station] = @ \o got]
             ELSE [f EXCEPT !.station_points = @ \o got]
    IN  IF f.bi < Len(f.date_blocks) /\ out.ok
        THEN [g EXCEPT !.bi = f.bi + 1]
        ELSE EnterStation(IF isApp THEN g
                          ELSE [g EXCEPT !.data_by_station =
                                             Put(@, station, g.station_points)],
                          f.si + 1)

AfterFetch(f, out) ==
    LET station == f.req.stations[f.si]
        isApp == f.req.handler = "app_download"
        \* except WebServiceError: continue
        got == IF out.ok THEN out.value ELSE <<>>
        g == IF isApp
             THEN [f EXCEPT !.data_by_station[station] = @ \o got]
             ELSE [f EXCEPT !.station_points = @ \o got]
    IN  IF f.bi < Len(f.date_blocks)
        THEN [g EXCEPT !.bi = f.bi + 1]
        ELSE EnterStation(IF isApp THEN g
                          ELSE [g EXCEPT !.data_by_station =
                                             Put(@, station, g.station_points)],
                          f.si + 1)

\* one iteration of the station loop of an availability check: the
\* first-recorded-date call ended as out
HasData(t) == [has_data |-> TRUE, first_date |-> t, error |-> ""]
HasNoData(error) == [has_data |-> FALSE, first_date |-> <<>>, error |-> error]

AfterFirstDate(f, out) ==
    LET station == f.req.stations[f.si]
        isApp == f.req.handler = "app_availability"
        record == IF out.ok THEN HasData(out.value)
                  ELSE IF out.exc = "WebServiceError" THEN HasNoData(out.msg)
                  ELSE HasNoData("Erreur interne")
        g == [f EXCEPT !.result = Put(@, station, record), !.si = f.si + 1]
    IN  IF ~out.ok /\ out.exc # "WebServiceError" /\ ~isApp
        THEN \* PulsonicProvider.get_availability catches WebServiceError only
             [f EXCEPT !.pc = "done", !.response = Raised(out.exc, out.msg)]
        ELSE IF f.si < Len(f.req.stations)
             THEN g
             ELSE [g EXCEPT !.pc = "done",
                            !.response = IF isApp THEN Http(200, "success") ELSE Returned]

\* the handler goes on with a connected client
Proceed(f) ==
    CASE f.req.handler \in {"app_health"} -> [f EXCEPT !.pc = "version"]
      [] f.req.handler \in {"app_availability", "prov_availability"} ->
            IF f.req.stations = <<>>
            THEN [f EXCEPT !.pc = "done", !.response = Returned]
            ELSE [f EXCEPT !.pc = "first_date", !.si = 1]
      [] f.req.handler \in {"app_download", "prov_download"} -> EnterStation(f, 1)

\* the validation at the head of the handlers of app.py: the 400 answer, or
\* NoResponse when the request passes
Validate(req) ==
    CASE req.handler = "app_download" ->
            IF req.missing # ""
            THEN Http(400, "Paramètre requis")
            ELSE IF ParseDate(req.start_date) = <<>> \/ ParseDate(req.end_date) = <<>>
                 THEN Http(400, "Erreur de validation")
                 ELSE IF ParseDate(req.start_date)[1] >= ParseDate(req.end_date)[1]
                      THEN Http(400, "La date de début doit être avant la date de fin")
                      ELSE NoResponse
      [] req.handler = "app_availability" ->
            IF req.missing # ""
            THEN Http(400, "Paramètre requis")
            ELSE IF req.stations = <<>>
                 THEN Http(400, "Le paramètre stations doit être une liste non vide")
                 ELSE NoResponse
      [] OTHER -> NoResponse

\* ======================================== utils.py: generate_csv_from_data
\* A station identifier is a text, held as the sequence of its pieces: the
\* family prefix 'CI_' or a letter. Python orders texts by code point, so
\* 'A' < 'B' < 'CI_' piece by piece, and a text comes after its own prefixes.
PREFIX == "CI_"
Pieces == {"A", "B", PREFIX}
PieceRank(c) == CASE c = "A" -> 1 [] c = "B" -> 2 [] c = PREFIX -> 3

\* a < b for two texts
RECURSIVE StrLess(_, _)
StrLess(a, b) ==
    IF b = <<>> THEN FALSE
    ELSE IF a = <<>> THEN TRUE
    ELSE IF Head(a) = Head(b) THEN StrLess(Tail(a), Tail(b))
    ELSE PieceRank(Head(a)) < PieceRank(Head(b))

\* station_id.replace('CI_', '')
station_label(station_id) == SelectSeq(station_id, LAMBDA c : c # PREFIX)

\* a value of a point: None, a text, or a number; Text(v) is str(v), what
\* csv.writer puts in the cell
None == [kind |-> "none", text |-> "None"]
Str(text) == [kind |-> "str", text |-> text]
Num(n) == [kind |-> "int", text |-> ToString(n)]
Text(v) == v.text

\* Config.DEFAULT_VALUE
DEFAULT_VALUE == "-99999"

\* a data point: its timestamp and the values it holds, by parameter name
Point(t, vals) == [timestamp |-> t, vals |-> vals]

\* point.get(param)
PointGet(point, param) ==
    IF param \in DOMAIN point.vals THEN point.vals[param] ELSE None

\* strftime('%Y-%m-%d') and strftime('%H:%M') of a timestamp
strftime_date(t) == DateText(t \div TicksPerDay)
strftime_time(t) == "h" \o ToString(t % TicksPerDay)

\* sorted(): the element goes after the elements that are not greater
RECURSIVE InsertKey(_, _)
InsertKey(k, sorted) ==
    IF sorted = <<>> THEN <<k>>
    ELSE IF StrLess(k, Head(sorted)) THEN <<k>> \o sorted
    ELSE <<Head(sorted)>> \o InsertKey(k, Tail(sorted))

RECURSIVE sorted_keys(_)
sorted_keys(keys) ==
    IF keys = <<>> THEN <<>>
    ELSE InsertKey(keys[Len(keys)], sorted_keys(SubSeq(keys, 1, Len(keys) - 1)))

RECURSIVE InsertPoint(_, _)
InsertPoint(p, sorted) ==
    IF sorted = <<>> THEN <<p>>
    ELSE IF p.timestamp < Head(sorted).timestamp THEN <<p>> \o sorted
    ELSE <<Head(sorted)>> \o InsertPoint(p, Tail(sorted))

\* the points left in the order they came
sorted_points_as_given(points) == points

RECURSIVE sorted_points(_)
sorted_points(points) ==
    IF points = <<>> THEN <<>>
    ELSE InsertPoint(points[Len(points)],
                     sorted_points(SubSeq(points, 1, Len(points) - 1)))

\* a dict in insertion order: the entries [key, value], the keys distinct
DictKeys(d) == [i \in DOMAIN d |-> d[i].key]
DictGet(d, k) == d[CHOOSE i \in DOMAIN d : d[i].key = k].value

\* one row of the table, a zero taken for a missing value
CsvRowZeroMissing(station_id, point, params, default_value) ==
    [Station |-> station_label(station_id),
     Date |-> strftime_date(point.timestamp),
     Heure |-> strftime_time(point.timestamp),
     cells |-> [i \in DOMAIN params |->
                   LET value == PointGet(point, params[i])
                   IN  IF value # None /\ Text(value) # "0"
                       THEN Text(value) ELSE default_value]]

\* one row of the table
CsvRow(station_id, point, params, default_value) ==
    [Station |-> station_label(station_id),
     Date |-> strftime_date(point.timestamp),
     Heure |-> strftime_time(point.timestamp),
     cells |-> [i \in DOMAIN params |->
                   LET value == PointGet(point, params[i])
                   IN  IF value # None THEN Text(value) ELSE default_value]]

StationRows(station_id, data_points, params, default_value) ==
    LET pts == sorted_points(data_points)
    IN  [i \in DOMAIN pts |-> CsvRow(station_id, pts[i], params, default_value)]

RECURSIVE CsvRows(_, _, _, _)
CsvRows(stations, data_by_station, params, default_value) ==
    IF stations = <<>> THEN <<>>
    ELSE StationRows(Head(stations), DictGet(data_by_station, Head(stations)),
                     params, default_value)
         \o CsvRows(Tail(stations), data_by_station, params, default_value)

generate_csv_from_data(data_by_station, params, default_value) ==
    [header |-> <<"Station", "Date", "Heure">> \o params,
     rows |-> CsvRows(sorted_keys(DictKeys(data_by_station)), data_by_station,
                      params, default_value)]

\* ========================================== utils.py: estimate_data_volume
\* a timedelta of d instants: its total_seconds(), and its days and seconds
\* fields (days rounded down, 0 <= seconds < one day)
SECONDS_PER_DAY == 24 * 3600
TickSeconds == SECONDS_PER_DAY \div TicksPerDay
total_seconds(d) == d * TickSeconds
delta_days(d) == total_seconds(d) \div SECONDS_PER_DAY
delta_seconds(d) == total_seconds(d) % SECONDS_PER_DAY

\* int(num / den): the quotient cut towards zero
IntOf(num, den) ==
    IF num >= 0 THEN num \div den ELSE -((-num) \div den)

\* round(100 * num / den) for num >= 0, a tie going to the even neighbour;
\* den is a multiple of 4, and the quotient is taken in two steps to keep the
\* products small
RoundHundredths(num, den) ==
    LET d == den \div 4
        q == 25 * (num \div d) + ((25 * (num % d)) \div d)
        r == (25 * (num % d)) % d
    IN  IF 2 * r < d THEN q
        ELSE IF 2 * r > d THEN q + 1
        ELSE IF q % 2 = 0 THEN q ELSE q + 1

\* points_per_station as the fraction num / den
points_per_station(delta, granularity) ==
    CASE granularity = "U" -> [num |-> total_seconds(delta), den |-> 60]
      [] granularity = "X" -> [num |-> total_seconds(delta), den |-> 6 * 60]
      [] granularity = "H" ->
            [num |-> delta_days(delta) * 24 * 3600 + delta_seconds(delta), den |-> 3600]
      [] granularity \in {"J", "D"} -> [num |-> delta_days(delta), den |-> 1]
      [] OTHER -> [num |-> delta_days(delta) * 24, den |-> 1]

\* size_mb is held in hundredths; a negative size is left unrounded at 0
estimate_data_volume(start, end, granularity, num_stations, num_params) ==
    LET delta == end - start
        pps == points_per_station(delta, granularity)
        total_rows == IntOf(pps.num * num_stations, pps.den)
        bytes_per_row == 20 + (num_params * 10)
        size_bytes == total_rows * bytes_per_row
    IN  [rows |-> total_rows,
         size_kb |-> IntOf(size_bytes, 1024),
         size_mb |-> IF size_bytes >= 0 THEN RoundHundredths(size_bytes, 1024 * 1024) ELSE 0]

\* ================================================ utils.py: format_duration
\* ' '.join(parts)
RECURSIVE Join(_)
Join(parts) ==
    IF parts = <<>> THEN ""
    ELSE IF Len(parts) = 1 THEN parts[1]
    ELSE parts[1] \o " " \o Join(Tail(parts))

format_duration(days) ==
    IF days < 30
    THEN ToString(days) \o " jour" \o (IF days > 1 THEN "s" ELSE "")
    ELSE LET years == days \div 365
             remaining_days == days % 365
             months == remaining_days \div 30
             parts == (IF years > 0
                       THEN <<ToString(years) \o " an" \o (IF years > 1 THEN "s" ELSE "")>>
                       ELSE <<>>)
                      \o (IF months > 0 THEN <<ToString(months) \o " mois">> ELSE <<>>)
         IN  IF parts # <<>> THEN Join(parts) ELSE ToString(days) \o " jours"

\* the record of a station with data: days_count = (now - first_date).days
\* and duration_formatted
availability_duration(now, first_date) ==
    LET days_count == delta_days(now - first_date)
    IN  [days_count |-> days_count, duration_formatted |-> format_duration(days_count)]

\* ============================================= specification: the chunker
SplitIdle ==
    /\ start_date = 0 /\ end_date = 0 /\ max_days = 1
    /\ blocks = <<>> /\ spc = "unused"
    /\ s_current_start = 0

CallIdle ==
    /\ c_connected = FALSE /\ c_params = <<>>
    /\ c_reply = Fault /\ c_outcome = NoOutcome

AppIdle ==
    /\ layer = "none" /\ ws_client = NoClient /\ prov_client = NoClient
    /\ h = IdleFrame /\ calls = <<>>

ThreadsIdle ==
    /\ g_ws_client = 0 /\ objs = <<>> /\ th = <<>> /\ inflight = {} /\ faulted = {}

UtilIdle ==
    /\ u_fn = "none" /\ u_in = <<>> /\ u_out = <<>>

ClientIdle ==
    /\ wsdl_url = "WSDL_URL" /\ connected = FALSE /\ client = "None"
    /\ hist = "none" /\ lastCall = [op |-> "none", outcome |-> NoOutcome]

SplitInit ==
    /\ start_date \in 0..MaxTick
    /\ end_date \in 0..MaxTick
    /\ max_days \in 1..MaxChunkDays
    /\ blocks = <<>>
    /\ spc = "ready"
    /\ s_current_start = start_date
    /\ CallIdle /\ ClientIdle /\ AppIdle /\ UtilIdle /\ ThreadsIdle

CallSplit ==
    /\ spc = "ready"
    /\ blocks' = split_date_range(start_date, end_date, max_days)
    /\ s_current_start' = IF blocks' = <<>> THEN start_date ELSE blocks'[Len(blocks')][2]
    /\ spc' = "returned"
    /\ UNCHANGED <<start_date, end_date, max_days, callVars, clientVars, appVars, utilVars, threadVars>>

SplitNext == CallSplit

SpecSplit == SplitInit /\ [][SplitNext]_vars

\* ================== specification: the chunker's loop, one iteration a step
\* the loop is left to run for at most MaxBlocks iterations
MaxBlocks == 6

\* current_end = min(current_start + timedelta(days=max_days), end_date)
ChunkEndStuck(cur, end, maxd) == Min(cur, end)

ChunkEnd(cur, end, maxd) == Min(cur + timedelta(maxd), end)

LoopMaxDays == (0 - 1)..MaxChunkDays

LoopInit ==
    /\ start_date \in 0..MaxTick
    /\ end_date \in 0..MaxTick
    /\ max_days \in LoopMaxDays
    /\ blocks = <<>>
    /\ s_current_start = start_date
    /\ spc = "loop"
    /\ CallIdle /\ ClientIdle /\ AppIdle /\ UtilIdle /\ ThreadsIdle

\* one pass through the body of "while current_start < end_date"
LoopIteration ==
    /\ spc = "loop"
    /\ s_current_start < end_date
    /\ Len(blocks) < MaxBlocks
    /\ LET current_end == ChunkEnd(s_current_start, end_date, max_days)
       IN  /\ blocks' = Append(blocks, <<s_current_start, current_end>>)
           /\ s_current_start' = current_end
    /\ UNCHANGED <<start_date, end_date, max_days, spc, callVars, clientVars, appVars, utilVars, threadVars>>

\* the loop condition is false: return blocks
LoopExit ==
    /\ spc = "loop"
    /\ ~(s_current_start < end_date)
    /\ spc' = "returned"
    /\ UNCHANGED <<start_date, end_date, max_days, blocks, s_current_start, callVars, clientVars, appVars, utilVars, threadVars>>

LoopNext == LoopIteration \/ LoopExit

SpecLoop == LoopInit /\ [][LoopNext]_vars

\* the interpreter keeps running the loop
FairSpecLoop == SpecLoop /\ WF_vars(LoopIteration) /\ WF_vars(LoopExit)

\* ================================ specification: one call on a given reply
ParamNames == {"p", "q"}
ParamLists == SeqsUpTo(ParamNames, MaxParams)

TextReplies == {TextReply(t) : t \in SeqsUpTo(Tokens, MaxReplyLen)}

\* the fields of a record: a timestamp (here with blanks around it) or
\* something that is none, then the values
StampFields == {<<" ">> \o strftime(0) \o <<" ">>, <<"x">>}
ValueFields == {<<>>, <<" ">>, <<" ", "4", " ">>}
Lines == {<<f>> \o v : f \in StampFields, v \in SeqsUpTo(ValueFields, MaxFields)}
XmlReplies == {XmlReply(d) : d \in SeqsUpTo(Lines, MaxLines)}

Replies == {Fault} \cup TextReplies \cup XmlReplies

CallInit ==
    /\ c_connected \in BOOLEAN
    /\ c_params \in ParamLists
    /\ c_reply \in Replies
    /\ c_outcome = NoOutcome
    /\ SplitIdle /\ ClientIdle /\ AppIdle /\ UtilIdle /\ ThreadsIdle

CallGetBlock ==
    /\ c_outcome = NoOutcome
    /\ c_outcome' = get_block_sorted_value(c_connected, c_params, c_reply)
    /\ UNCHANGED <<c_connected, c_params, c_reply, splitVars, clientVars, appVars, utilVars, threadVars>>

CallNext == CallGetBlock

SpecCall == CallInit /\ [][CallNext]_vars

\* ======================= specification: one client, any sequence of calls
SampleReplies ==
    { Fault,
      TextReply(<<MARKER, "-", "5">>),
      TextReply(<<MARKER, "-", "4">>),
      TextReply(<<MARKER, "x">>),
      TextReply(<<"x">>),
      TextReply(strftime(0)),
      XmlReply(<<>>),
      XmlReply(<< <<strftime(0), <<"4">>>> >>) }

\* MeteoVisionClient.__init__, on either endpoint of config.py
Endpoints == {"WSDL_URL", "WSDL_URL_BACKUP"}

ClientInit ==
    /\ wsdl_url \in Endpoints
    /\ connected = FALSE
    /\ client = "None"
    /\ hist = "none"
    /\ lastCall = [op |-> "none", outcome |-> NoOutcome]
    /\ SplitIdle /\ CallIdle /\ AppIdle /\ UtilIdle /\ ThreadsIdle

Connect(o) ==
    /\ client' = IF o = "wsdl_fault" THEN client ELSE "zeep"
    /\ connected' = IF Accepted(o) THEN TRUE ELSE connected
    /\ hist' = IF Accepted(o) THEN "connect_ok" ELSE "connect_failed"
    /\ lastCall' = [op |-> "connect", outcome |-> connect_outcome(o)]
    /\ UNCHANGED <<wsdl_url, splitVars, callVars, appVars, utilVars, threadVars>>

Close ==
    /\ connected' = FALSE
    /\ hist' = "close"
    /\ lastCall' = [op |-> "close", outcome |-> Return(<<>>)]
    /\ UNCHANGED <<wsdl_url, client, splitVars, callVars, appVars, utilVars, threadVars>>

GetVersion(r) ==
    /\ lastCall' = [op |-> "get_version", outcome |-> get_version(connected, r)]
    /\ UNCHANGED <<wsdl_url, connected, client, hist, splitVars, callVars, appVars, utilVars, threadVars>>

GetFirstRecordedDate(r) ==
    /\ lastCall' = [op |-> "get_first_recorded_date",
                    outcome |-> get_first_recorded_date(connected, r)]
    /\ UNCHANGED <<wsdl_url, connected, client, hist, splitVars, callVars, appVars, utilVars, threadVars>>

GetBlockSortedValue(params, r) ==
    /\ lastCall' = [op |-> "get_block_sorted_value",
                    outcome |-> get_block_sorted_value(connected, params, r)]
    /\ UNCHANGED <<wsdl_url, connected, client, hist, splitVars, callVars, appVars, utilVars, threadVars>>

ClientNext ==
    \/ \E o \in ConnectOutcomes : Connect(o)
    \/ Close
    \/ \E r \in SampleReplies : GetVersion(r)
    \/ \E r \in SampleReplies : GetFirstRecordedDate(r)
    \/ \E params \in ParamLists, r \in SampleReplies : GetBlockSortedValue(params, r)

SpecClient == ClientInit /\ [][ClientNext]_vars

\* ============================== specification: generate_csv_from_data
CsvStationIds == {<<"A">>, <<"A", "B">>, <<"B">>, <<PREFIX, "A">>}
CsvParamNames == {"P1", "P2"}
CsvValues == {None, Str(""), Str("0"), Num(0), Str(DEFAULT_VALUE), Str("7")}

\* the key lists of a dict: distinct station identifiers, in insertion order
KeyLists ==
    {ks \in SeqsUpTo(CsvStationIds, MaxCsvStations) :
        \A i, j \in DOMAIN ks : i # j => ks[i] # ks[j]}

\* for the order of the rows: points of a late hour of one day and of the
\* first hour of the next, all with a value for the one parameter
CsvStamps == {1, TicksPerDay}
OrderPoints == {Point(t, [n \in {"P1"} |-> Str("7")]) : t \in CsvStamps}
OrderLists == SeqsUpTo(OrderPoints, MaxCsvPoints)
OrderDict(ks, pts) == [i \in DOMAIN ks |-> [key |-> ks[i], value |-> pts[i]]]

\* for the cells: one point of one station, holding any value, or none, for
\* any of the parameter names, and any list of parameters
CellPoints ==
    UNION {{Point(0, vals) : vals \in [names -> CsvValues]} :
           names \in SUBSET CsvParamNames}
CellDict(p) == << [key |-> <<PREFIX, "A">>, value |-> <<p>>] >>
CellParamLists == SeqsUpTo(CsvParamNames, MaxCsvParams)

CsvInput(d, params) ==
    [data_by_station |-> d, params |-> params, default_value |-> DEFAULT_VALUE]

CsvInit ==
    /\ u_fn = "generate_csv_from_data"
    /\ \/ \E ks \in KeyLists : \E pts \in [DOMAIN ks -> OrderLists] :
              u_in = CsvInput(OrderDict(ks, pts), <<"P1">>)
       \/ \E p \in CellPoints : \E ps \in CellParamLists :
              u_in = CsvInput(CellDict(p), ps)
    /\ u_out = <<>>
    /\ SplitIdle /\ CallIdle /\ ClientIdle /\ AppIdle /\ ThreadsIdle

CallGenerateCsv ==
    /\ u_fn = "generate_csv_from_data" /\ u_out = <<>>
    /\ u_out' = <<generate_csv_from_data(u_in.data_by_station, u_in.params,
                                         u_in.default_value)>>
    /\ UNCHANGED <<u_fn, u_in, splitVars, callVars, clientVars, appVars, threadVars>>

CsvNext == CallGenerateCsv

SpecCsv == CsvInit /\ [][CsvNext]_vars

\* ================================ specification: estimate_data_volume
\* "Q" is a granularity the function does not know
EstGranularities == {"U", "X", "H", "J", "D", "Q"}
EstStarts == 0..MaxEstTick
EstEnds == (0..MaxEstTick) \cup {365 * TicksPerDay}

EstimateInit ==
    /\ u_fn = "estimate_data_volume"
    /\ \E s \in EstStarts, e \in EstEnds, g \in EstGranularities,
          n \in 0..MaxEstStations, k \in 0..MaxEstParams :
            u_in = [start_date |-> s, end_date |-> e, granularity |-> g,
                    num_stations |-> n, num_params |-> k]
    /\ u_out = <<>>
    /\ SplitIdle /\ CallIdle /\ ClientIdle /\ AppIdle /\ ThreadsIdle

CallEstimate ==
    /\ u_fn = "estimate_data_volume" /\ u_out = <<>>
    /\ u_out' = <<estimate_data_volume(u_in.start_date, u_in.end_date,
                                       u_in.granularity, u_in.num_stations,
                                       u_in.num_params)>>
    /\ UNCHANGED <<u_fn, u_in, splitVars, callVars, clientVars, appVars, threadVars>>

EstimateNext == CallEstimate

SpecEstimate == EstimateInit /\ [][EstimateNext]_vars

\* ============ specification: days_count and format_duration of a record
DurNows == {MaxDurDays * TicksPerDay, MaxDurDays * TicksPerDay + 1}
DurFirstDates == 0..((MaxDurDays + 1) * TicksPerDay)

DurationInit ==
    /\ u_fn = "format_duration"
    /\ \E now \in DurNows, first_date \in DurFirstDates :
          u_in = [now |-> now, first_date |-> first_date]
    /\ u_out = <<>>
    /\ SplitIdle /\ CallIdle /\ ClientIdle /\ AppIdle /\ ThreadsIdle

CallFormatDuration ==
    /\ u_fn = "format_duration" /\ u_out = <<>>
    /\ u_out' = <<availability_duration(u_in.now, u_in.first_date)>>
    /\ UNCHANGED <<u_fn, u_in, splitVars, callVars, clientVars, appVars, threadVars>>

DurationNext == CallFormatDuration

SpecDuration == DurationInit /\ [][DurationNext]_vars

\* ============== specification: the request layer and the provider at work
StationIds == {"CI_A", "CI_B"}
StationLists == SeqsUpTo(StationIds, MaxStations)
RequestParamLists == {<<>>, <<"p">>}
\* a granularity of one week per request, one of half a year, an unknown one
Granularities == {"U", "H", "Z"}
\* the start is one of the first days, the end one of the first days or the
\* last day
StartDates == {DateText(d) : d \in 0..MaxStartDay}
EndDates == {DateText(d) : d \in {0, 1, MaxDay}}

Request(handler, missing, stations, params, sd, ed, g) ==
    [handler |-> handler, missing |-> missing, stations |-> stations,
     params |-> params, start_date |-> sd, end_date |-> ed, granularity |-> g]

\* one station over two full blocks and one day more, for each granularity
LongDownloadRequests(handler) ==
    {Request(handler, "", <<"CI_A">>, <<"p">>, DateText(0), DateText(LongEndDay(g)), g) :
        g \in AllGranularities}

\* the JSON bodies posted to /api/download: complete ones, and one with a
\* required field missing
AppDownloadRequests ==
    {Request("app_download", "", st, pa, sd, ed, g) :
        st \in StationLists, pa \in RequestParamLists,
        sd \in StartDates \cup {BadDate}, ed \in EndDates \cup {BadDate},
        g \in Granularities}
    \cup {Request("app_download", m, <<>>, <<>>, "", "", "H") :
            m \in {"stations", "params", "start_date", "end_date"}}
    \cup LongDownloadRequests("app_download")

\* the JSON bodies posted to /api/stations/availability
AppAvailabilityRequests ==
    {Request("app_availability", "", st, <<>>, "", "", g) :
        st \in StationLists, g \in Granularities}
    \cup {Request("app_availability", "stations", <<>>, <<>>, "", "", "H")}

AppHealthRequests == {Request("app_health", "", <<>>, <<>>, "", "", "")}

\* the arguments of PulsonicProvider.download_data and get_availability; the
\* two datetimes are written as the day they are the midnight of
ProviderRequests ==
    {Request("prov_download", "", st, pa, sd, ed, g) :
        st \in StationLists, pa \in RequestParamLists,
        sd \in StartDates, ed \in EndDates, g \in Granularities}
    \cup {Request("prov_availability", "", st, <<>>, "", "", g) :
            st \in StationLists, g \in Granularities}
    \cup LongDownloadRequests("prov_download")

Requests(l) ==
    IF l = "app"
    THEN AppDownloadRequests \cup AppAvailabilityRequests \cup AppHealthRequests
    ELSE ProviderRequests

\* what the service may answer to one GetBlockSortedValue for [bs, be]: a
\* fault, "Error:-5", "Error:-4", a record with no timestamp, or two records,
\* stamped bs and be
BlockReplies(bs, be) ==
    { Fault,
      TextReply(<<MARKER, "-", "5">>),
      TextReply(<<MARKER, "-", "4">>),
      XmlReply(<< << <<"x">>, <<"4">> >> >>),
      XmlReply(<< <<strftime(bs), <<"4">>>>, <<strftime(be), <<>>>> >>) }

\* what it may answer to one GetFirstRecordedDate
FirstDateReplies ==
    { Fault,
      TextReply(<<MARKER, "-", "4">>),
      TextReply(<<"x">>),
      TextReply(strftime(0)) }

VersionReplies == {Fault, TextReply(<<MARKER, "-", "1">>), TextReply(<<"x">>)}

Call(op, target, block, ok, points) ==
    [op |-> op, target |-> target, block |-> block, ok |-> ok, points |-> points]

Init ==
    /\ layer \in {"app", "provider"}
    /\ ws_client = NoClient
    /\ prov_client = NoClient
    /\ h = IdleFrame
    /\ calls = <<>>
    /\ SplitIdle /\ CallIdle /\ ClientIdle /\ UtilIdle /\ ThreadsIdle

\* a handler of app.py is entered with a request body, or a method of the
\* provider is called: the validation, and get_ws_client / _connect up to
\* the first remote call
\* the handler's work on request req, up to its first remote call
Accept(req) ==
    LET dated == req.handler \in {"app_download", "prov_download"}
                   /\ ParseDate(req.start_date) # <<>>
                   /\ ParseDate(req.end_date) # <<>>
        f == [IdleFrame EXCEPT
                 !.req = req,
                 !.start = IF dated THEN ParseDate(req.start_date)[1] ELSE 0,
                 !.end = IF dated THEN ParseDate(req.end_date)[1] ELSE 0]
    IN  IF Validate(req) # NoResponse
        THEN [f EXCEPT !.pc = "done", !.response = Validate(req)]
        ELSE IF NeedsConnect(TheClient)
             THEN [f EXCEPT !.pc = "connect"]
             ELSE Proceed(f)

StartRequest ==
    /\ h.pc = "idle"
    /\ \E req \in Requests(layer) : h' = Accept(req)
    /\ calls' = <<>>
    /\ UNCHANGED <<layer, ws_client, prov_client, splitVars, callVars, clientVars, utilVars, threadVars>>

\* get_ws_client / PulsonicProvider._connect: a client on the primary
\* endpoint is built and connect() is called on it
ConnectPrimary(o) ==
    /\ h.pc = "connect"
    /\ calls' = Append(calls, Call("connect", "WSDL_URL", <<>>, Accepted(o), <<>>))
    /\ IF layer = "app"
       THEN /\ ws_client' = [url |-> "WSDL_URL", connected |-> Accepted(o)]
            /\ UNCHANGED prov_client
            /\ h' = IF Accepted(o) THEN Proceed(h) ELSE [h EXCEPT !.pc = "backup"]
       ELSE /\ prov_client' = [url |-> "WSDL_URL", connected |-> Accepted(o)]
            /\ UNCHANGED ws_client
            /\ h' = IF Accepted(o) THEN Proceed(h)
                    ELSE [h EXCEPT !.pc = "done",
                                   !.response = Raised("WebServiceError",
                                                       "Impossible de se connecter")]
    /\ UNCHANGED <<layer, splitVars, callVars, clientVars, utilVars, threadVars>>

\* get_ws_client, in its except branch: a client on the backup endpoint
ConnectBackup(o) ==
    /\ h.pc = "backup"
    /\ calls' = Append(calls, Call("connect", "WSDL_URL_BACKUP", <<>>, Accepted(o), <<>>))
    /\ ws_client' = [url |-> "WSDL_URL_BACKUP", connected |-> Accepted(o)]
    /\ h' = IF Accepted(o) THEN Proceed(h)
            ELSE [h EXCEPT !.pc = "done",
                           !.response =
                               IF h.req.handler = "app_download"
                               THEN Http(500, "Erreur WebService")
                               ELSE Http(500, "Impossible de se connecter")]
    /\ UNCHANGED <<layer, prov_client, splitVars, callVars, clientVars, utilVars, threadVars>>

\* one block of a download is fetched
FetchBlock ==
    /\ h.pc = "fetch"
    /\ LET block == h.date_blocks[h.bi]
       IN  \E reply \in BlockReplies(block[1], block[2]) :
             LET out == get_block_sorted_value(TheClient.connected, h.req.params, reply)
             IN  /\ h' = AfterFetch(h, out)
                 /\ calls' = Append(calls, Call("fetch", h.req.stations[h.si], block,
                                                out.ok, IF out.ok THEN out.value ELSE <<>>))
    /\ UNCHANGED <<layer, ws_client, prov_client, splitVars, callVars, clientVars, utilVars, threadVars>>

\* the first recorded date of one station is asked for
FirstDate(reply) ==
    /\ h.pc = "first_date"
    /\ LET out == get_first_recorded_date(TheClient.connected, reply)
       IN  /\ h' = AfterFirstDate(h, out)
           /\ calls' = Append(calls, Call("first_date", h.req.stations[h.si], <<>>,
                                          out.ok, <<>>))
    /\ UNCHANGED <<layer, ws_client, prov_client, splitVars, callVars, clientVars, utilVars, threadVars>>

\* health_check: the version is asked for
Version(reply) ==
    /\ h.pc = "version"
    /\ LET out == get_version(TheClient.connected, reply)
       IN  /\ h' = [h EXCEPT !.pc = "done",
                             !.response = IF out.ok THEN Http(200, "ok")
                                          ELSE Http(500, out.msg)]
           /\ calls' = Append(calls, Call("version", "", <<>>, out.ok, <<>>))
    /\ UNCHANGED <<layer, ws_client, prov_client, splitVars, callVars, clientVars, utilVars, threadVars>>

\* the handler has answered: its locals are dropped, the clients stay
Respond ==
    /\ h.pc = "done"
    /\ h' = IdleFrame
    /\ calls' = <<>>
    /\ UNCHANGED <<layer, ws_client, prov_client, splitVars, callVars, clientVars, utilVars, threadVars>>

Next ==
    \/ StartRequest
    \/ \E o \in ConnectOutcomes : ConnectPrimary(o)
    \/ \E o \in ConnectOutcomes : ConnectBackup(o)
    \/ FetchBlock
    \/ \E reply \in FirstDateReplies : FirstDate(reply)
    \/ \E reply \in VersionReplies : Version(reply)
    \/ Respond

Spec == Init /\ [][Next]_vars

\* ====== specification: handlers of app.py on the threads of the server
\* app.run() serves each request on a thread of its own, and get_ws_client
\* takes no lock.  A handler calls get_ws_client() and then a method of the
\* client it was given: get_version (health_check, test_connection),
\* get_first_recorded_date (get_stations_availability) or
\* get_block_sorted_value (download_data); every statement of get_ws_client
\* that reads or writes the global is one step.
Threads == {"t1", "t2"}
RemoteOps == {"GetVersion", "GetFirstRecordedDate", "GetBlockSortedValue"}

\* attempts: the connect() calls of the get_ws_client call in progress
IdleThread == [pc |-> "idle", op |-> "", target |-> 0, client |-> 0, attempts |-> <<>>]

ThreadsInit ==
    /\ g_ws_client = 0
    /\ objs = <<>>
    /\ th = [t \in Threads |-> IdleThread]
    /\ inflight = {}
    /\ faulted = {}
    /\ SplitIdle /\ CallIdle /\ ClientIdle /\ AppIdle /\ UtilIdle

ThreadsUnchanged == UNCHANGED <<splitVars, callVars, clientVars, appVars, utilVars>>

\* a request comes in; if ws_client is None or not ws_client.connected:
CheckClient(t, op) ==
    /\ th[t].pc = "idle"
    /\ th' = [th EXCEPT ![t].op = op,
                        ![t].pc = IF NeedsConnect(IF g_ws_client = 0 THEN NoClient
                                                  ELSE objs[g_ws_client])
                                  THEN "primary" ELSE "return"]
    /\ UNCHANGED <<g_ws_client, objs, inflight, faulted>>
    /\ ThreadsUnchanged

\* ws_client = MeteoVisionClient(Config.WSDL_URL, ...), or the same on
\* Config.WSDL_URL_BACKUP in the except branch
CreateClient(t) ==
    /\ th[t].pc \in {"primary", "backup"}
    /\ Len(objs) < MaxClients
    /\ objs' = Append(objs, NewClient(IF th[t].pc = "primary"
                                      THEN "WSDL_URL" ELSE "WSDL_URL_BACKUP"))
    /\ g_ws_client' = Len(objs) + 1
    /\ th' = [th EXCEPT ![t].pc = IF th[t].pc = "primary" THEN "connect1" ELSE "connect2"]
    /\ UNCHANGED <<inflight, faulted>>
    /\ ThreadsUnchanged

\* ws_client.connect(): the global is read again, and the handshake is sent
\* on the object it names now
ConnectBegin(t) ==
    /\ th[t].pc \in {"connect1", "connect2"}
    /\ th' = [th EXCEPT ![t].pc = IF th[t].pc = "connect1" THEN "wait1" ELSE "wait2",
                        ![t].target = g_ws_client]
    /\ inflight' = inflight \cup {[thread |-> t, op |-> "OpenConnection", on |-> g_ws_client]}
    /\ UNCHANGED <<g_ws_client, objs, faulted>>
    /\ ThreadsUnchanged

\* the handshake is answered: connected is set, or WebServiceError is raised,
\* to the except branch from the first connect and out of the handler from the
\* second
ConnectEnd(t, o) ==
    /\ th[t].pc \in {"wait1", "wait2"}
    /\ inflight' = inflight \ {[thread |-> t, op |-> "OpenConnection", on |-> th[t].target]}
    /\ IF connect_outcome(o).ok
       THEN /\ objs' = [objs EXCEPT ![th[t].target].connected = TRUE]
            /\ th' = [th EXCEPT ![t].pc = "return",
                                ![t].attempts = Append(@, [url |-> objs[th[t].target].url,
                                                           ok |-> TRUE])]
       ELSE /\ objs' = objs
            /\ th' = [th EXCEPT ![t] =
                         IF th[t].pc = "wait1"
                         THEN [@ EXCEPT !.pc = "backup",
                                        !.attempts = Append(@, [url |-> objs[th[t].target].url,
                                                                ok |-> FALSE])]
                         ELSE IdleThread]
    /\ UNCHANGED <<g_ws_client, faulted>>
    /\ ThreadsUnchanged

\* return ws_client
ReturnClient(t) ==
    /\ th[t].pc = "return"
    /\ th' = [th EXCEPT ![t].pc = "call", ![t].client = g_ws_client]
    /\ UNCHANGED <<g_ws_client, objs, inflight, faulted>>
    /\ ThreadsUnchanged

\* the method of the client: it raises when the client is not connected,
\* else sends its remote operation
CallBegin(t) ==
    /\ th[t].pc = "call"
    /\ IF objs[th[t].client].connected
       THEN /\ th' = [th EXCEPT ![t].pc = "waitop"]
            /\ inflight' = inflight \cup {[thread |-> t, op |-> th[t].op, on |-> th[t].client]}
       ELSE /\ th' = [th EXCEPT ![t] = IdleThread]
            /\ inflight' = inflight
    /\ UNCHANGED <<g_ws_client, objs, faulted>>
    /\ ThreadsUnchanged

\* the remote operation is answered, or meets a transport fault: the method
\* returns or raises, the client object is left as it was, and the handler
\* answers
CallEnd(t, fault) ==
    /\ th[t].pc = "waitop"
    /\ inflight' = inflight \ {[thread |-> t, op |-> th[t].op, on |-> th[t].client]}
    /\ faulted' = IF fault THEN faulted \cup {th[t].client} ELSE faulted
    /\ th' = [th EXCEPT ![t] = IdleThread]
    /\ UNCHANGED <<g_ws_client, objs>>
    /\ ThreadsUnchanged

ThreadsNext ==
    \E t \in Threads :
        \/ \E op \in RemoteOps : CheckClient(t, op)
        \/ CreateClient(t)
        \/ ConnectBegin(t)
        \/ \E o \in ConnectOutcomes : ConnectEnd(t, o)
        \/ ReturnClient(t)
        \/ CallBegin(t)
        \/ \E fault \in BOOLEAN : CallEnd(t, fault)

SpecThreads == ThreadsInit /\ [][ThreadsNext]_vars

\* ------------------------------------------------------------------ C1
\* C1: for start < end and max_days >= 1 the returned chunks tile
\* [start, end): the first chunk starts at start, the last ends at end, each
\* chunk starts where the previous one ended, every chunk is non-empty and
\* spans at most max_days days.
C1_Tiles ==
    (spc = "returned" /\ start_date < end_date) =>
        /\ Len(blocks) >= 1
        /\ blocks[1][1] = start_date
        /\ blocks[Len(blocks)][2] = end_date
        /\ \A i \in 1..(Len(blocks) - 1) : blocks[i + 1][1] = blocks[i][2]
        /\ \A i \in 1..Len(blocks) :
              /\ blocks[i][1] < blocks[i][2]
              /\ blocks[i][2] - blocks[i][1] <= max_days * TicksPerDay

\* a range that needs several chunks, the last one shorter than max_days
C1_Witness ==
    /\ spc = "returned"
    /\ start_date < end_date
    /\ Len(blocks) >= 2
    /\ blocks[Len(blocks)][2] - blocks[Len(blocks)][1] < max_days * TicksPerDay

\* ------------------------------------------------------------------ C2
\* C2: the number of chunks is ceil(totalDays / max_days) when start < end
\* (totalDays = end - start, possibly a fraction of a day), and zero when
\* start >= end.
CeilDiv(a, b) == (a + b - 1) \div b

C2_Count ==
    spc = "returned" =>
        Len(blocks) = IF start_date < end_date
                      THEN CeilDiv(end_date - start_date, max_days * TicksPerDay)
                      ELSE 0

\* both cases: a fractional number of days, and an empty range
C2_Witness ==
    /\ spc = "returned"
    /\ start_date < end_date
    /\ (end_date - start_date) % (max_days * TicksPerDay) # 0
    /\ Len(blocks) >= 2

C2_WitnessEmpty ==
    /\ spc = "returned"
    /\ start_date > end_date
    /\ blocks = <<>>

\* ------------------------------------------------------------------ C3
\* the decimal text of an integer whose digits all are among Digits
DigitTok(d) == CASE d = 1 -> "1" [] d = 2 -> "2" [] d = 4 -> "4" [] d = 5 -> "5"

RECURSIVE Spellable(_)
Spellable(n) ==
    IF n < 10 THEN n \in {1, 2, 4, 5}
    ELSE (n % 10) \in {1, 2, 4, 5} /\ Spellable(n \div 10)

RECURSIVE SpellNat(_)
SpellNat(n) ==
    IF n < 10 THEN <<DigitTok(n)>>
    ELSE SpellNat(n \div 10) \o <<DigitTok(n % 10)>>

Spell(c) == IF c < 0 THEN <<"-">> \o SpellNat(0 - c) ELSE SpellNat(c)

\* the codes considered are -MaxCode..MaxCode
MaxCode == 55
SpelledCodes == {c \in (0 - MaxCode)..MaxCode : Spellable(IF c < 0 THEN 0 - c ELSE c)}

\* the reply is some marker-free text, then the marker, then the code c
EmbedsCode(toks, c) ==
    \E i \in DOMAIN toks :
        /\ \A j \in 1..(i - 1) : toks[j] # MARKER
        /\ toks[i] = MARKER
        /\ SubSeq(toks, i + 1, Len(toks)) = Spell(c)

\* C3: in get_block_sorted_value on a connected client, a reply that embeds
\* the error marker with code -5 yields an empty point list and no
\* exception; a reply that embeds it with any other code raises
\* WebServiceError carrying that code and its mapped message (the generic
\* message for an unmapped code) and yields no point list.
C3_ErrorCodes ==
    (c_outcome # NoOutcome /\ c_connected) =>
        \A c \in SpelledCodes :
            EmbedsCode(c_reply.toks, c) =>
                IF c = -5
                THEN c_outcome.ok /\ c_outcome.value = <<>>
                ELSE /\ ~c_outcome.ok
                     /\ c_outcome.exc = "WebServiceError"
                     /\ c_outcome.code = <<c>>
                     /\ c_outcome.msg =
                            (CASE c = -1 -> "Erreur de connexion/login"
                               [] c = -2 -> "Argument inconnu"
                               [] c = -4 -> "Station non trouvée"
                               [] c = -15 -> "Aucune donnée disponible"
                               [] OTHER -> "Erreur inconnue")

\* the reply "x Error:-4": a mapped code other than -5, after other text
C3_Witness ==
    /\ c_outcome # NoOutcome
    /\ c_connected
    /\ c_reply.toks = <<"x", MARKER, "-", "4">>
    /\ ~c_outcome.ok

\* the reply "Error:-5" gave the empty list
C3_WitnessNoData ==
    /\ c_connected
    /\ c_reply.toks = <<MARKER, "-", "5">>
    /\ c_outcome = Return(<<>>)

\* ------------------------------------------------------------------ C4
\* C4: get_version never raises, in any client state: it returns the version
\* string, or "Unknown" when retrieval fails (client not connected, transport
\* fault, reply with the error marker).
C4_GetVersionNeverRaises ==
    lastCall.op = "get_version" => lastCall.outcome.ok

\* what the code does hold to: on a connected client get_version returns
C4_ConnectedNeverRaises ==
    (lastCall.op = "get_version" /\ connected) => lastCall.outcome.ok

\* ------------------------------------------------------------------ C5
\* C5: connect() returns with connected true or raises the connection error;
\* and in every state connected is true only if the most recent connect() on
\* the client succeeded and close() was not called since.
C5_ConnectedIffLastConnectOk ==
    /\ lastCall.op = "connect" =>
          \/ lastCall.outcome.ok /\ connected
          \/ ~lastCall.outcome.ok /\ lastCall.outcome.exc = "WebServiceError"
    /\ connected => hist = "connect_ok"

\* what the code does hold to: the first half
C5_ConnectReturnsConnected ==
    lastCall.op = "connect" =>
        \/ lastCall.outcome.ok /\ connected
        \/ ~lastCall.outcome.ok /\ lastCall.outcome.exc = "WebServiceError"

\* ------------------------------------------------------------------ C6
FailedPrimaryAt(i) ==
    calls[i].op = "connect" /\ calls[i].target = "WSDL_URL" /\ ~calls[i].ok

BackupTriedAfter(i) ==
    \E j \in (i + 1)..Len(calls) :
        calls[j].op = "connect" /\ calls[j].target = "WSDL_URL_BACKUP"

\* C6: whenever connect() on the primary endpoint fails, the caller that
\* establishes the connection (get_ws_client, PulsonicProvider._connect) has
\* tried connect() on the backup endpoint by the time the handler ends.
C6_BackupRetried ==
    h.pc = "done" =>
        \A i \in DOMAIN calls : FailedPrimaryAt(i) => BackupTriedAfter(i)

\* what the code does hold to: get_ws_client retries on the backup endpoint
C6_AppBackupRetried ==
    (h.pc = "done" /\ layer = "app") =>
        \A i \in DOMAIN calls : FailedPrimaryAt(i) => BackupTriedAfter(i)

\* ------------------------------------------------------------------ C7
IsAvailability(f) == f.req.handler \in {"app_availability", "prov_availability"}

FirstDateCalls == {i \in DOMAIN calls : calls[i].op = "first_date"}

\* C7: in an availability check, a failing first-recorded-date call (error
\* code, malformed date, transport fault) degrades only that station's record
\* to has_data = false with an error message: the check still returns one
\* record for every requested station, and every station is queried.
C7_AvailabilityDegrades ==
    (h.pc = "done" /\ IsAvailability(h) /\ FirstDateCalls # {}) =>
        /\ h.response.raised = ""
        /\ DOMAIN h.result = Range(h.req.stations)
        /\ Cardinality(FirstDateCalls) = Len(h.req.stations)
        /\ \A i \in FirstDateCalls :
              (\A j \in FirstDateCalls : j > i => calls[j].target # calls[i].target) =>
                  /\ h.result[calls[i].target].has_data = calls[i].ok
                  /\ ~calls[i].ok => h.result[calls[i].target].error # ""

\* what the code does hold to: the handler of app.py, which catches Exception
C7_AppAvailabilityDegrades ==
    (h.pc = "done" /\ h.req.handler = "app_availability" /\ FirstDateCalls # {}) =>
        /\ h.response = Http(200, "success")
        /\ DOMAIN h.result = Range(h.req.stations)
        /\ Cardinality(FirstDateCalls) = Len(h.req.stations)

\* ------------------------------------------------------------------ C8
IsDownload(f) == f.req.handler \in {"app_download", "prov_download"}

\* the fetches of the handler in progress, in the order they were made
FetchCalls == SelectSeq(calls, LAMBDA c : c.op = "fetch")

RECURSIVE Concat(_)
Concat(ss) == IF ss = <<>> THEN <<>> ELSE Head(ss) \o Concat(Tail(ss))

\* the chunks of the request, from its dates and its granularity's limit
ChunksOf(f) == split_date_range(f.start, f.end, LimitOf(f.req.granularity))

\* the last place of station s in the list of the request
LastPlace(f, s) ==
    CHOOSE k \in DOMAIN f.req.stations :
        f.req.stations[k] = s /\ \A j \in DOMAIN f.req.stations : f.req.stations[j] = s => j <= k

NO_DATA_MESSAGE == "Aucune donnée disponible pour la période sélectionnée"

\* C9: a download whose fetched rows total zero is answered 404 'Aucune
\* donnée disponible', and that answer is not the one given when the remote
\* calls failed with a transport or web-service error.
C9_NoDataDistinct ==
    (h.pc = "done" /\ h.req.handler = "app_download") =>
        /\ (FetchCalls # <<>> /\ TotalRows(h.data_by_station, DOMAIN h.data_by_station) = 0) =>
              h.response = Http(404, NO_DATA_MESSAGE)
        /\ (FetchCalls # <<>> /\ \A i \in DOMAIN FetchCalls : ~FetchCalls[i].ok) =>
              h.response # Http(404, NO_DATA_MESSAGE)

\* what the code does hold to: no row, then 404; a connection that cannot be
\* made on either endpoint, then 500
C9_ZeroRowsIs404 ==
    (h.pc = "done" /\ h.req.handler = "app_download") =>
        /\ (h.response.status \in {200, 404}
              /\ TotalRows(h.data_by_station, DOMAIN h.data_by_station) = 0) =>
                 h.response = Http(404, NO_DATA_MESSAGE)
        /\ (calls # <<>> /\ \A i \in DOMAIN calls : calls[i].op = "connect" /\ ~calls[i].ok) =>
                 h.response = Http(500, "Erreur WebService")

\* ----------------------------------------------------------------- C10
\* the body's date range is malformed, or a list is empty, or start >= end
MalformedRange(req) == req.start_date = BadDate \/ req.end_date = BadDate

StartNotBeforeEnd(req) ==
    \E d1 \in Days, d2 \in Days :
        req.start_date = DateText(d1) /\ req.end_date = DateText(d2) /\ d1 >= d2

\* C10: a download request with a malformed date range, an empty station
\* list, an empty parameter list or start >= end is answered 400, and no
\* remote connection or request is made for it.
C10_InvalidRejected ==
    (h.req.handler = "app_download" /\ h.req.missing = ""
        /\ (MalformedRange(h.req) \/ h.req.stations = <<>> \/ h.req.params = <<>>
              \/ StartNotBeforeEnd(h.req))) =>
        /\ calls = <<>>
        /\ h.pc = "done" => h.response.status = 400

\* what the code does hold to: the dates are checked, the lists are not
C10_BadDatesRejected ==
    (h.req.handler = "app_download"
        /\ (h.req.missing # "" \/ MalformedRange(h.req) \/ StartNotBeforeEnd(h.req))) =>
        /\ calls = <<>>
        /\ h.pc = "done" /\ h.response.status = 400

\* ----------------------------------------------------------------- C11
CsvDone == u_fn = "generate_csv_from_data" /\ u_out # <<>>

RECURSIVE SumLen(_, _)
SumLen(d, idx) ==
    IF idx = {} THEN 0
    ELSE LET i == CHOOSE x \in idx : TRUE
         IN  Len(d[i].value) + SumLen(d, idx \ {i})

\* the rows that come before those of entry i: those of the stations whose
\* identifier is smaller
RowsBefore(d, i) == SumLen(d, {j \in DOMAIN d : StrLess(d[j].key, d[i].key)})

\* the instant a row shows in its Date and Heure columns
RowStamp(row) ==
    CHOOSE t \in 0..((MaxDay + 1) * TicksPerDay) :
        strftime_date(t) = row.Date /\ strftime_time(t) = row.Heure

\* C11: after the header row, generate_csv_from_data emits the rows of all
\* stations grouped by station, the stations in ascending lexical order of
\* their identifier, and each station's rows in ascending timestamp order,
\* whatever the insertion order of stations and points; there are as many
\* rows as input points.
C11_RowsSorted ==
    CsvDone =>
        LET d == u_in.data_by_station
            out == u_out[1]
        IN  /\ out.header = <<"Station", "Date", "Heure">> \o u_in.params
            /\ Len(out.rows) = SumLen(d, DOMAIN d)
            /\ \A i \in DOMAIN d :
                  LET first == RowsBefore(d, i)
                      n == Len(d[i].value)
                  IN  /\ first + n <= Len(out.rows)
                      /\ \A k \in 1..n :
                            LET row == out.rows[first + k]
                            IN  /\ row.Station = station_label(d[i].key)
                                /\ k < n => RowStamp(row) <= RowStamp(out.rows[first + k + 1])
                                \* the station's rows are its points, each as often
                                /\ Cardinality({m \in 1..n : RowStamp(out.rows[first + m]) = RowStamp(row)})
                                   = Cardinality({m \in 1..n : d[i].value[m].timestamp = RowStamp(row)})

\* two stations inserted in descending order of identifier, the first with
\* its points in descending order of time
C11_Witness ==
    /\ CsvDone
    /\ Len(u_in.data_by_station) = 2
    /\ StrLess(u_in.data_by_station[2].key, u_in.data_by_station[1].key)
    /\ Len(u_in.data_by_station[1].value) = 2
    /\ u_in.data_by_station[1].value[1].timestamp > u_in.data_by_station[1].value[2].timestamp
    /\ Len(u_in.data_by_station[2].value) = 1
    /\ Len(u_out[1].rows) = 3
    /\ u_out[1].rows[1].Station = station_label(u_in.data_by_station[2].key)

\* ----------------------------------------------------------------- C12
\* the value of the point is absent: None, or no key for the parameter
Absent(point, param) ==
    param \notin DOMAIN point.vals \/ point.vals[param] = None

\* the cells of a row are those the point calls for, the sentinel standing
\* for an absent value only when onlyAbsent
CellsOf(row, point, params, onlyAbsent) ==
    \A i \in DOMAIN params :
        /\ ~Absent(point, params[i]) => row.cells[i] = Text(point.vals[params[i]])
        /\ Absent(point, params[i]) => row.cells[i] = u_in.default_value
        /\ onlyAbsent => (row.cells[i] = u_in.default_value => Absent(point, params[i]))
        /\ (~Absent(point, params[i]) /\ point.vals[params[i]] \in {Str("0"), Num(0)})
              => row.cells[i] = "0"
        /\ Absent(point, params[i]) => row.cells[i] \notin {"", "0"}

\* every row of the table is the row of one of its station's points at the
\* row's instant
RowsHoldCells(onlyAbsent) ==
    LET d == u_in.data_by_station
        out == u_out[1]
    IN  \A i \in DOMAIN d : \A k \in 1..Len(d[i].value) :
            LET row == out.rows[RowsBefore(d, i) + k]
            IN  /\ Len(row.cells) = Len(u_in.params)
                /\ \E m \in DOMAIN d[i].value :
                      /\ d[i].value[m].timestamp = RowStamp(row)
                      /\ CellsOf(row, d[i].value[m], u_in.params, onlyAbsent)

\* C12: in the table, for every point and every requested parameter, the cell
\* is the point's value when the value is present, and the sentinel
\* ("-99999") when the value is None or the point has no key for the
\* parameter; a present zero (0 or "0") is emitted as zero, and an absent
\* value is never emitted as empty or zero. (The sentinel is also what shows
\* when the present value is itself the sentinel text.)
C12_CellsHoldValues == CsvDone => RowsHoldCells(FALSE)

\* C12 as first stated: the cell is the sentinel exactly when the value is
\* absent
C12_SentinelOnlyWhenAbsent == CsvDone => RowsHoldCells(TRUE)

\* a point with a zero for one parameter and no key for the other
C12_Witness ==
    /\ CsvDone
    /\ Len(u_in.data_by_station) = 1
    /\ u_in.params = <<"P1", "P2">>
    /\ Len(u_in.data_by_station[1].value) = 1
    /\ DOMAIN u_in.data_by_station[1].value[1].vals = {"P1"}
    /\ u_in.data_by_station[1].value[1].vals["P1"] = Num(0)
    /\ u_out[1].rows[1].cells = <<"0", DEFAULT_VALUE>>

\* ----------------------------------------------------------------- C13
EstimateDone == u_fn = "estimate_data_volume" /\ u_out # <<>>

\* the nominal sampling interval of a granularity, in seconds
SamplingInterval(g) ==
    CASE g = "U" -> 60 [] g = "X" -> 360 [] g = "H" -> 3600
      [] g \in {"J", "D"} -> 86400 [] OTHER -> 3600

\* floor(pointsPerStation * stationCount), pointsPerStation being the
\* elapsed seconds over the sampling interval
ClaimedRows(args) ==
    (total_seconds(args.end_date - args.start_date) * args.num_stations)
        \div SamplingInterval(args.granularity)

\* C13: estimate_data_volume returns rows = floor(pointsPerStation *
\* stationCount), pointsPerStation being the elapsed seconds divided by the
\* granularity's sampling interval: 60 s for U, 360 s for X, 3600 s for H,
\* 86400 s for J and D, 3600 s for an unknown granularity.
C13_Rows == EstimateDone => u_out[1].rows = ClaimedRows(u_in)

WholeDays(args) ==
    args.start_date % TicksPerDay = 0 /\ args.end_date % TicksPerDay = 0

\* what the code does hold to: the rows claimed, between two midnights, and
\* for U, X and H between any two instants in order; 17520 rows for the hours
\* of a year at two stations
C13_WholeDayRows ==
    EstimateDone =>
        /\ (WholeDays(u_in) \/ (u_in.granularity \in {"U", "X", "H"}
                                  /\ u_in.start_date <= u_in.end_date))
              => u_out[1].rows = ClaimedRows(u_in)
        /\ (u_in.start_date = 0 /\ u_in.end_date = 365 * TicksPerDay
              /\ u_in.granularity = "H" /\ u_in.num_stations = 2)
              => u_out[1].rows = 17520

\* ----------------------------------------------------------------- C14
DurationDone == u_fn = "format_duration" /\ u_out # <<>>

\* the whole days from first_date to now
WholeDaysBetween(first_date, now) ==
    CHOOSE d \in -(MaxDurDays + 2)..(MaxDurDays + 2) :
        d * TicksPerDay <= now - first_date /\ now - first_date < (d + 1) * TicksPerDay

\* C14: days_count is the whole-day difference between now and the first
\* recorded date, and format_duration(days_count) reads "<N> ans <M> mois"
\* (N = days // 365, M = (days % 365) // 30) for every days_count >= 30 and
\* "<N> jour(s)" for every days_count < 30.
C14_DurationForm ==
    DurationDone =>
        LET days == u_out[1].days_count
            text == u_out[1].duration_formatted
        IN  /\ days = WholeDaysBetween(u_in.first_date, u_in.now)
            /\ days >= 30 =>
                  text = ToString(days \div 365) \o " ans "
                         \o ToString((days % 365) \div 30) \o " mois"
            /\ days < 30 => text \in {ToString(days) \o " jour", ToString(days) \o " jours"}

\* what the code does hold to: a part that is zero is left out, and one year
\* reads "1 an"
C14_DurationParts ==
    DurationDone =>
        LET days == u_out[1].days_count
            text == u_out[1].duration_formatted
            N == days \div 365
            M == (days % 365) \div 30
            ans == ToString(N) \o (IF N > 1 THEN " ans" ELSE " an")
            mois == ToString(M) \o " mois"
        IN  /\ days = WholeDaysBetween(u_in.first_date, u_in.now)
            /\ days < 30 => text \in {ToString(days) \o " jour", ToString(days) \o " jours"}
            /\ (days >= 30 /\ N > 0 /\ M > 0) => text = ans \o " " \o mois
            /\ (days >= 30 /\ N > 0 /\ M = 0) => text = ans
            /\ (days >= 30 /\ N = 0) => text = mois
            /\ (days >= 2 * 365 /\ M > 0) =>
                  text = ToString(N) \o " ans " \o ToString(M) \o " mois"

\* ----------------------------------------------------------------- C15
\* the client objects on which a session was opened
OpenSessions == {o \in DOMAIN objs : objs[o].connected}

\* C15: with request handlers running concurrently on the shared global
\* client, use of the remote connection is serialized: never are two remote
\* operations (the OpenConnection handshake included) in flight at once, and
\* going from disconnected to connected opens one session only: two handlers
\* never each make and connect a client of their own.
C15_Serialized ==
    /\ Cardinality(inflight) <= 1
    /\ Cardinality(OpenSessions) <= 1

\* what the code does hold to: a thread has at most one operation in flight
C15_OnePerThread ==
    \A a, b \in inflight : a.thread = b.thread => a = b

\* ----------------------------------------------------------------- C16
\* a request starts on thread t: get_ws_client looks at the shared client
RequestStarts(t) == th[t].pc = "idle" /\ th'[t].pc # "idle"

\* C16: the shared connection is made lazily, reused while valid, and made
\* anew after a failure: once a remote call on the shared client has met a
\* transport fault, the next request that calls get_ws_client makes a new
\* connection (primary, then backup) and does not reuse the failed one.
C16_Reestablished ==
    [][\A t \in Threads :
          RequestStarts(t) =>
              /\ g_ws_client = 0 => th'[t].pc = "primary"
              /\ (g_ws_client # 0 /\ g_ws_client \in faulted) => th'[t].pc = "primary"
              /\ (g_ws_client # 0 /\ g_ws_client \notin faulted /\ objs[g_ws_client].connected)
                    => th'[t].pc = "return"]_vars

\* what the code does hold to: the connection is made when there is none and
\* reused whenever the client's connected flag is set, which a failed remote
\* call never clears
C16_LazyAndReused ==
    [][\A t \in Threads :
          RequestStarts(t) =>
              /\ g_ws_client = 0 => th'[t].pc = "primary"
              /\ (g_ws_client # 0 /\ objs[g_ws_client].connected) => th'[t].pc = "return"
              /\ \A o \in DOMAIN objs : objs[o].connected => objs'[o].connected]_vars

\* ----------------------------------------------------------------- C17
\* get_ws_client has returned on thread t
ClientReturned(t) == th[t].pc \in {"call", "waitop"}

\* C17: in any single get_ws_client call, no connect is attempted when the
\* held client is connected; otherwise the primary endpoint is attempted
\* exactly once, and the backup endpoint at most once and only after the
\* primary attempt failed; and whenever the call returns normally the client
\* it returns has connected = true.
C17_SingleCall ==
    \A t \in Threads :
        LET a == th[t].attempts
        IN  /\ Len(a) <= 2
            /\ a # <<>> => a[1].url = "WSDL_URL"
            /\ Len(a) = 2 => (~a[1].ok /\ a[2].url = "WSDL_URL_BACKUP")
            /\ th[t].pc = "call" => objs[th[t].client].connected

\* the connect() calls of the handler in progress
ConnectCalls == SelectSeq(calls, LAMBDA c : c.op = "connect")

\* what the code does hold to, with requests served one at a time: the same
\* for each get_ws_client call, and an error that propagates with no further
\* attempt when the backup fails too
C17_OneAtATime ==
    layer = "app" =>
        LET a == ConnectCalls
        IN  /\ Len(a) <= 2
            /\ a # <<>> => a[1].target = "WSDL_URL"
            /\ Len(a) = 2 => (~a[1].ok /\ a[2].target = "WSDL_URL_BACKUP")
            /\ (Len(a) = 2 /\ ~a[2].ok) =>
                  (h.pc = "done" /\ h.response.status = 500 /\ Len(calls) = 2)
            /\ (a # <<>> /\ a[Len(a)].ok) => ws_client.connected
            /\ h.pc \in {"fetch", "first_date", "version"} => ws_client.connected
            /\ (ws_client.connected /\ h.pc \notin {"idle", "connect", "backup"}
                  /\ a # <<>>) => \E i \in DOMAIN a : a[i].ok /\ a[i].target = ws_client.url

\* ----------------------------------------------------------------- C18
\* the limit of a granularity, in days
ClaimedLimit(g) ==
    CASE g = "U" -> 7 [] g = "X" -> 31 [] g = "H" -> 180
      [] g \in {"J", "D"} -> 365 [] OTHER -> 180

\* the number of block requests made for the first station: up to the first
\* that ends at the end of the range, or all so far
FirstPass(fetches, end) ==
    IF \E i \in DOMAIN fetches : fetches[i].block[2] = end
    THEN CHOOSE i \in DOMAIN fetches :
             /\ fetches[i].block[2] = end
             /\ \A j \in 1..(i - 1) : fetches[j].block[2] # end
    ELSE Len(fetches) + 1

\* C18: in a download, every block request sent to the remote client spans at
\* most the granularity's limit in days (7 for U, 31 for X, 180 for H, 365
\* for J and D, 180 for an unknown granularity), and the requests come in
\* sequence: for each station in request order, its chunks in ascending time
\* order, all the chunks of one station before any chunk of the next.
C18_BlocksBounded ==
    IsDownload(h) =>
        LET fetches == FetchCalls
            n == FirstPass(fetches, h.end)
        IN  \A j \in DOMAIN fetches :
                LET k == ((j - 1) \div n) + 1
                    block == fetches[j].block
                IN  /\ block[1] < block[2]
                    /\ block[2] - block[1] <= ClaimedLimit(h.req.granularity) * TicksPerDay
                    /\ h.start <= block[1] /\ block[2] <= h.end
                    /\ k <= Len(h.req.stations)
                    /\ fetches[j].target = h.req.stations[k]
                    /\ block[1] = IF (j - 1) % n = 0 THEN h.start ELSE fetches[j - 1].block[2]
                    /\ (j % n = 0) = (block[2] = h.end)

\* a range of 361 days at an unknown granularity, asked in blocks of 180, 180
\* and 1 days
C18_Witness ==
    /\ IsDownload(h) /\ h.pc = "done"
    /\ h.req.granularity = "Z"
    /\ Len(FetchCalls) = 3
    /\ FetchCalls[1].block = <<0, 180 * TicksPerDay>>
    /\ FetchCalls[2].block = <<180 * TicksPerDay, 360 * TicksPerDay>>
    /\ FetchCalls[3].block = <<360 * TicksPerDay, 361 * TicksPerDay>>

\* two stations of two chunks each, asked one station after the other
C18_WitnessStations ==
    /\ IsDownload(h) /\ h.pc = "done"
    /\ Len(h.req.stations) = 2 /\ h.req.stations[1] # h.req.stations[2]
    /\ Len(FetchCalls) = 4
    /\ FetchCalls[2].target = h.req.stations[1]
    /\ FetchCalls[3].target = h.req.stations[2]

\* ----------------------------------------------------------------- C19
\* two places of a series hold the same timestamp
SharedStamps(series) ==
    {t \in {series[i].timestamp : i \in DOMAIN series} :
        \E i, j \in DOMAIN series : i < j /\ series[i].timestamp = t /\ series[j].timestamp = t}

\* C19: in every station series a download produces (the points of all the
\* fetched chunks, one after the other), no two points share a timestamp,
\* also where the end instant of one block request is the start instant of
\* the next.
C19_NoSharedTimestamp ==
    (IsDownload(h) /\ h.pc = "done") =>
        \A s \in DOMAIN h.data_by_station : SharedStamps(h.data_by_station[s]) = {}

\* what the code does hold to, for replies that hold an instant once: a
\* timestamp found twice in a series is an instant where one block request
\* ended and the next began
C19_SharedOnlyAtBoundaries ==
    (IsDownload(h) /\ h.pc = "done") =>
        \A s \in DOMAIN h.data_by_station :
            \A t \in SharedStamps(h.data_by_station[s]) :
                \E i, j \in DOMAIN FetchCalls :
                    /\ FetchCalls[i].target = s /\ FetchCalls[j].target = s
                    /\ FetchCalls[i].block[2] = t /\ FetchCalls[j].block[1] = t

\* ----------------------------------------------------------------- C20
\* all the text after the first marker
TextAfterMarker(text) == SubSeq(text, FirstMarker(text) + 1, Len(text))

\* the integer a text spells when it is exactly an integer (an optional
\* minus sign, then digits): <<n>>, otherwise <<>>
ExactInteger(text) ==
    IF IsDigits(text) THEN <<DigitsValue(text, 0)>>
    ELSE IF text # <<>> /\ Head(text) = "-" /\ IsDigits(Tail(text))
         THEN <<0 - DigitsValue(Tail(text), 0)>>
         ELSE <<>>

ClaimedCode(text) ==
    LET n == ExactInteger(TextAfterMarker(text))
    IN  IF n = <<>> THEN -999 ELSE n[1]

MarkedReply == c_outcome # NoOutcome /\ c_connected /\ c_reply.kind = "text" /\ HasMarker(c_reply.toks)

GenericError(outcome) ==
    /\ ~outcome.ok
    /\ outcome.exc = "WebServiceError"
    /\ outcome.code = <<-999>>
    /\ outcome.msg = "Erreur inconnue"

\* C20: for every reply text that holds the marker "Error:" anywhere, the
\* extracted code is the integer after the marker when the text after the
\* marker is exactly an integer, and -999 otherwise; in
\* get_block_sorted_value a code that cannot be extracted gives the
\* WebServiceError of the unknown code with the generic message, never
\* another exception and never an empty point list.
C20_ExtractedCode ==
    MarkedReply =>
        /\ _extract_error_code(c_reply.toks) = ClaimedCode(c_reply.toks)
        /\ ClaimedCode(c_reply.toks) = -999 => GenericError(c_outcome)

\* the text between the first marker and the next one (the end of the text
\* when there is no other), without the blanks around it
MarkedSegment(text) ==
    LET i == FirstMarker(text)
        later == {k \in (i + 1)..Len(text) : text[k] = MARKER}
        stop == IF later = {} THEN Len(text) + 1
                ELSE CHOOSE k \in later : \A m \in later : k <= m
        seg == SubSeq(text, i + 1, stop - 1)
        inner == {k \in DOMAIN seg : seg[k] # " "}
    IN  IF inner = {} THEN <<>>
        ELSE SubSeq(seg, CHOOSE k \in inner : \A m \in inner : k <= m,
                         CHOOSE k \in inner : \A m \in inner : m <= k)

\* what the code does hold to: the code is the integer that the text between
\* the first marker and the next one spells, blanks around it aside, and
\* -999 when that text is no integer; the call then returns the empty list
\* for -5 alone and raises WebServiceError with the code otherwise
C20_CodeOfFirstSegment ==
    MarkedReply =>
        LET n == ExactInteger(MarkedSegment(c_reply.toks))
            code == IF n = <<>> THEN -999 ELSE n[1]
        IN  /\ _extract_error_code(c_reply.toks) = code
            /\ IF code = -5 THEN c_outcome = Return(<<>>)
               ELSE ~c_outcome.ok /\ c_outcome.exc = "WebServiceError" /\ c_outcome.code = <<code>>
            /\ n = <<>> => GenericError(c_outcome)

\* ----------------------------------------------------------------- C21
Decoded == c_outcome # NoOutcome /\ c_connected /\ c_reply.kind = "xml"

\* the entry of the parameter at place i for a record: the trimmed text of
\* the field at place i after the timestamp when there is one and it is not
\* empty, the absent value otherwise
ClaimedEntry(record, i) ==
    IF i + 1 <= Len(record) /\ Strip(record[i + 1]) # <<>>
    THEN <<Strip(record[i + 1])>>
    ELSE <<>>

StampOf(record) == strptime(Strip(record[1]))

\* the point list has one point per record, each with the record's
\* timestamp and one entry per requested parameter, none the empty string
PointsShaped ==
    /\ c_outcome.ok = (\A k \in DOMAIN c_reply.lines : StampOf(c_reply.lines[k]) # <<>>)
    /\ c_outcome.ok =>
        /\ Len(c_outcome.value) = Len(c_reply.lines)
        /\ \A k \in DOMAIN c_reply.lines :
            /\ c_outcome.value[k].timestamp = StampOf(c_reply.lines[k])[1]
            /\ DOMAIN c_outcome.value[k].vals = {c_params[i] : i \in DOMAIN c_params}
            /\ \A i \in DOMAIN c_params : c_outcome.value[k].vals[c_params[i]] # << <<>> >>

C21_WitnessBlank ==
    /\ Decoded
    /\ c_outcome.ok
    /\ \E k \in DOMAIN c_reply.lines :
        /\ Len(c_reply.lines[k]) = 2 /\ c_reply.lines[k][2] = <<" ">>
        /\ Len(c_params) = 1
        /\ c_outcome.value[k].vals[c_params[1]] = <<>>

\* ----------------------------------------------------------------- C22
\* C22: split_date_range returns for every start, end and max_days >= 1,
\* the chunk start growing on each iteration and never past end; with
\* max_days <= 0 and start < end the chunk start never grows and the loop
\* never returns.
C22_Terminates ==
    /\ (max_days >= 1) ~> (spc = "returned")
    /\ [][(LoopIteration /\ max_days >= 1) =>
            (s_current_start' > s_current_start /\ s_current_start' <= end_date)]_vars
    /\ [][(LoopIteration /\ max_days <= 0) => s_current_start' <= s_current_start]_vars
    /\ []((max_days <= 0 /\ start_date < end_date) => spc # "returned")

\* the loop returned after three iterations
C22_Witness ==
    /\ spc = "returned"
    /\ max_days >= 1
    /\ Len(blocks) = 3
    /\ s_current_start = end_date

\* with max_days = 0 the loop has appended the same empty chunk twice
C22_WitnessStuck ==
    /\ max_days = 0
    /\ start_date < end_date
    /\ Len(blocks) >= 2
    /\ blocks[1] = blocks[2]
====
